---- MODULE Spec2Model ----
(***************************************************************************)
(* Cadastro de Clientes: the serverless request handler over the           *)
(* `customers` relation (src/db/db.ts) and the React state controller      *)
(* that talks to it (src/App.tsx).                                         *)
(*                                                                         *)
(* JavaScript values are records tagged with their type, so that the       *)
(* truthiness tests of the code (`!body`, `!name`, `!id`, `if (deletingId)`)*)
(* are computed as JavaScript computes them.  Strings are sequences of     *)
(* one-character strings.                                                  *)
(***************************************************************************)
EXTENDS Integers, Sequences, FiniteSets, TLC

\* Largest value the serial sequence of customers.id takes in the model.
MaxSeq == 2

VARIABLES
    dbUrl,        \* process.env.DATABASE_URL is set
    module,       \* the function's module: "unloaded", "loaded", "failed"
    dbEvents,     \* kinds of storage access made so far
    tableExists,  \* the relation "customers" exists in the database
    table,        \* the rows of the relation
    seq,          \* last value handed out by the serial sequence of id
    last,         \* the most recent request the platform answered, with its answer
    created,      \* history: the records of the 201 answers, in order
    removed,      \* history: the ids of the 200 answers to DELETE
    customers,    \* App: useState<Customer[]>
    isLoading,    \* App: useState(true)
    error,        \* App: useState<string | null>
    isAdding,     \* App: useState(false)
    deletingId,   \* App: useState<number | null>
    formError,    \* CustomerForm: useState('') for error
    mounted,      \* the effect of App has run
    calls,        \* the asynchronous calls of the client that are awaiting fetch
    ui            \* the most recent user event the client handled

client == <<customers, isLoading, error, isAdding, deletingId, formError, mounted, calls, ui>>
vars == <<dbUrl, module, dbEvents, tableExists, table, seq, last, created, removed,
          customers, isLoading, error, isAdding, deletingId, formError, mounted, calls, ui>>

-----------------------------------------------------------------------------
(* JavaScript values *)

Undefined == [t |-> "undefined"]
Null == [t |-> "null"]
Str(s) == [t |-> "string", v |-> s]
Num(n) == [t |-> "number", v |-> n]

\* ToBoolean: undefined, null, "" and 0 are falsy.
Truthy(x) ==
    CASE x.t = "undefined" -> FALSE
      [] x.t = "null" -> FALSE
      [] x.t = "string" -> x.v # <<>>
      [] x.t = "number" -> x.v # 0
      [] OTHER -> TRUE

IsSpace(c) == c = " "

RECURSIVE TrimStart(_)
TrimStart(s) == IF s # <<>> /\ IsSpace(Head(s)) THEN TrimStart(Tail(s)) ELSE s

RECURSIVE TrimEnd(_)
TrimEnd(s) ==
    IF s # <<>> /\ IsSpace(s[Len(s)]) THEN TrimEnd(SubSeq(s, 1, Len(s) - 1)) ELSE s

\* String.prototype.trim
Trim(s) == TrimEnd(TrimStart(s))

-----------------------------------------------------------------------------
(* Request bodies: event.body is absent, or text that JSON.parse rejects,  *)
(* or the text of an object whose fields may be missing.                   *)

NoBody == [kind |-> "none", name |-> Undefined, phone |-> Undefined, id |-> Undefined]
BadJson == [kind |-> "bad", name |-> Undefined, phone |-> Undefined, id |-> Undefined]
Json(n, p, i) == [kind |-> "json", name |-> n, phone |-> p, id |-> i]

\* `!body`
BodyMissing(body) == body.kind = "none"

NameValues == {Undefined, Str(<<>>), Str(<<" ">>), Str(<<"A">>)}
PhoneValues == {Undefined, Str(<<>>), Str(<<"1">>)}
IdValues == {Undefined} \cup {Num(n) : n \in 0..(MaxSeq + 1)}

PostBodies == {NoBody, BadJson} \cup {Json(n, p, Undefined) : n \in NameValues, p \in PhoneValues}
DeleteBodies == {NoBody, BadJson} \cup {Json(Undefined, Undefined, i) : i \in IdValues}

Methods == {"GET", "POST", "DELETE", "PUT"}

BodiesOf(method) ==
    CASE method = "POST" -> PostBodies
      [] method = "DELETE" -> DeleteBodies
      [] OTHER -> {NoBody}

\* Where the storage fails during one invocation: nowhere, at the
\* CREATE TABLE IF NOT EXISTS statement, or at the statement of the method.
Failures == {"none", "ensure", "op"}

-----------------------------------------------------------------------------
(* Messages of the handler *)

ConfigMissing == "A variável de ambiente DATABASE_URL não está configurada."
BodyAbsent == "Corpo da requisição ausente."
FieldsRequired == "Nome e telefone são obrigatórios."
IdRequired == "ID do cliente é obrigatório."
NotFound == "Cliente não encontrado."
NotAllowed == "Método não permitido."
Removed == "Cliente removido com sucesso."
StorageError == "storage error"
ParseError == "Unexpected token"

ErrorBody(msg) == [error |-> msg]

-----------------------------------------------------------------------------
(* The relation *)

Ids(rows) == {r.id : r \in rows}

MaxId(rows) == CHOOSE i \in Ids(rows) : \A j \in Ids(rows) : j <= i

MinId(rows) == CHOOSE i \in Ids(rows) : \A j \in Ids(rows) : i <= j

RECURSIVE OrderAscId(_)
OrderAscId(rows) ==
    IF rows = {} THEN <<>>
    ELSE LET r == CHOOSE x \in rows : x.id = MinId(rows)
         IN <<r>> \o OrderAscId(rows \ {r})

\* db.query.customers.findMany({ orderBy: [desc(customers.id)] })
RECURSIVE OrderDescId(_)
OrderDescId(rows) ==
    IF rows = {} THEN <<>>
    ELSE LET r == CHOOSE x \in rows : x.id = MaxId(rows)
         IN <<r>> \o OrderDescId(rows \ {r})

ReuseSerial(rows, s) == IF rows = {} THEN 1 ELSE MaxId(rows) + 1

\* id: serial('id').primaryKey() -- nextval of the sequence, which only grows
NextSerial(rows, s) == s + 1

\* ensureTableExists: CREATE TABLE IF NOT EXISTS "customers"; rethrows on failure
EnsureTableExists(st, fail) ==
    IF fail = "ensure"
    THEN [st EXCEPT !.events = @ \cup {"ensure"}, !.failed = TRUE]
    ELSE [st EXCEPT !.events = @ \cup {"ensure"}, !.tableExists = TRUE, !.failed = FALSE]

Respond(st, status, out) ==
    [status |-> status, out |-> out, table |-> st.table, seq |-> st.seq,
     tableExists |-> st.tableExists, events |-> st.events]

\* case "GET"
HandleGet(st, body, fail) ==
    IF fail = "op"
    THEN Respond([st EXCEPT !.events = @ \cup {"select"}], 500, ErrorBody(StorageError))
    ELSE Respond([st EXCEPT !.events = @ \cup {"select"}], 200, OrderDescId(st.table))

PostNoValidation(st, body, fail) ==
    IF body.kind # "json" THEN Respond(st, 400, ErrorBody(BodyAbsent))
    ELSE LET row == [id |-> NextSerial(st.table, st.seq),
                     name |-> IF body.name.t = "string" THEN body.name.v ELSE <<>>,
                     phone |-> IF body.phone.t = "string" THEN body.phone.v ELSE <<>>]
         IN Respond([st EXCEPT !.table = @ \cup {row}, !.seq = row.id], 201, row)

\* case "POST"
HandlePost(st, body, fail) ==
    IF BodyMissing(body) THEN Respond(st, 400, ErrorBody(BodyAbsent))
    ELSE IF body.kind = "bad" THEN Respond(st, 500, ErrorBody(ParseError))
    ELSE IF ~Truthy(body.name) \/ ~Truthy(body.phone)
    THEN Respond(st, 400, ErrorBody(FieldsRequired))
    ELSE IF fail = "op"
    THEN Respond([st EXCEPT !.events = @ \cup {"insert"}], 500, ErrorBody(StorageError))
    ELSE LET row == [id |-> NextSerial(st.table, st.seq),
                     name |-> body.name.v, phone |-> body.phone.v]
         IN Respond([st EXCEPT !.events = @ \cup {"insert"},
                               !.table = @ \cup {row}, !.seq = row.id],
                    201, row)

\* case "DELETE"
HandleDelete(st, body, fail) ==
    IF BodyMissing(body) THEN Respond(st, 400, ErrorBody(BodyAbsent))
    ELSE IF body.kind = "bad" THEN Respond(st, 500, ErrorBody(ParseError))
    ELSE IF ~Truthy(body.id) THEN Respond(st, 400, ErrorBody(IdRequired))
    ELSE IF fail = "op"
    THEN Respond([st EXCEPT !.events = @ \cup {"delete"}], 500, ErrorBody(StorageError))
    ELSE LET hit == {r \in st.table : r.id = body.id.v}
         IN IF hit = {}
            THEN Respond([st EXCEPT !.events = @ \cup {"delete"}], 404, ErrorBody(NotFound))
            ELSE Respond([st EXCEPT !.events = @ \cup {"delete"}, !.table = @ \ hit],
                         200, [message |-> Removed, id |-> body.id.v])

\* switch (httpMethod)
Dispatch(st, method, body, fail) ==
    CASE method = "GET" -> HandleGet(st, body, fail)
      [] method = "POST" -> HandlePost(st, body, fail)
      [] method = "DELETE" -> HandleDelete(st, body, fail)
      [] OTHER -> Respond(st, 405, ErrorBody(NotAllowed))

\* The handler on the storage state st: the answer and the storage state after it.
Handler(st, url, method, body, fail) ==
    IF ~url THEN Respond(st, 500, ErrorBody(ConfigMissing))
    ELSE LET ensured == EnsureTableExists(st, fail)
         IN IF ensured.failed
            THEN Respond(ensured, 500, ErrorBody(StorageError))
            ELSE Dispatch(ensured, method, body, fail)

Storage == [table |-> table, seq |-> seq, tableExists |-> tableExists,
            events |-> dbEvents, failed |-> FALSE]

\* What the platform answers when the module of the function could not be loaded.
Crashed(st) == Respond(st, 502, [errorMessage |-> "module initialization error"])

\* One invocation of the function by the platform.
Invoke(method, body, fail) ==
    IF module = "failed" THEN Crashed(Storage)
    ELSE Handler(Storage, dbUrl, method, body, fail)

Answered(method, body, fail, res) ==
    [method |-> method, body |-> body, fail |-> fail, status |-> res.status,
     out |-> res.out, before |-> table, after |-> res.table]

NoRequest ==
    [method |-> "none", body |-> NoBody, fail |-> "none", status |-> 0,
     out |-> ErrorBody(""), before |-> {}, after |-> {}]

-----------------------------------------------------------------------------
(* Server actions *)

\* const sql = neon(process.env.DATABASE_URL!); export const db = drizzle(sql)
\* runs when the module is loaded, before any invocation.  With the variable
\* unset neon() is handed undefined: it may throw or return a client.
LoadModule ==
    /\ module = "unloaded"
    /\ dbEvents' = dbEvents \cup {"construct"}
    /\ \E ok \in (IF dbUrl THEN {TRUE} ELSE {TRUE, FALSE}) :
          module' = IF ok THEN "loaded" ELSE "failed"
    /\ UNCHANGED <<dbUrl, tableExists, table, seq, last, created, removed>>
    /\ UNCHANGED client

Apply(method, body, fail) ==
    LET res == Invoke(method, body, fail)
    IN /\ module # "unloaded"
       /\ res.seq <= MaxSeq
       /\ table' = res.table
       /\ seq' = res.seq
       /\ tableExists' = res.tableExists
       /\ dbEvents' = res.events
       /\ last' = Answered(method, body, fail, res)
       /\ created' = IF res.status = 201 THEN Append(created, res.out) ELSE created
       /\ removed' = IF method = "DELETE" /\ res.status = 200
                     THEN removed \cup {res.out.id} ELSE removed
       /\ UNCHANGED <<dbUrl, module>>

\* A request sent to the function by anyone but the modelled page.
Request ==
    \E method \in Methods : \E body \in BodiesOf(method) : \E fail \in Failures :
        /\ Apply(method, body, fail)
        /\ UNCHANGED client

-----------------------------------------------------------------------------
(* The page: App and CustomerForm of src/App.tsx.  An asynchronous call    *)
(* that awaits fetch is an element of calls: its request travels ("req"),  *)
(* the function answers it ("resp"), and the answer reaches the page, which *)
(* then runs the rest of the call.                                         *)

Msg(m) == [t |-> "message", v |-> m]

FetchFailed == "Falha ao buscar clientes do banco de dados."
NetworkError == "Failed to fetch"

FormNames == {<<>>, <<" ">>, <<"A">>}
FormPhones == {<<>>, <<"1">>}

Call(kind, method, body) ==
    [kind |-> kind, method |-> method, body |-> body, st |-> "req",
     status |-> 0, out |-> ErrorBody("")]

CallsOf(s, kind) == {i \in 1..Len(s) : s[i].kind = kind}

InFlight(kind) == CallsOf(calls, kind)

Remove(s, i) == SubSeq(s, 1, i - 1) \o SubSeq(s, i + 1, Len(s))

\* response.ok
Ok(status) == status >= 200 /\ status <= 299

RECURSIVE Filter(_, _)
\* prevCustomers.filter(customer => customer.id !== id)
Filter(s, id) ==
    IF s = <<>> THEN <<>>
    ELSE IF Head(s).id # id THEN <<Head(s)>> \o Filter(Tail(s), id)
    ELSE Filter(Tail(s), id)

ListIds == {customers[i].id : i \in 1..Len(customers)}

\* renderContent shows CustomerList only when not loading and without error
ListRendered == ~isLoading /\ ~Truthy(error)

SubmitAlways == TRUE

\* <button type="submit" disabled={isAdding}>
SubmitEnabled == ~isAdding

DeleteUnguarded(id) == TRUE

\* if (deletingId) return; passes when no deletion is in flight
DeleteGuardPasses(id) == ~Truthy(deletingId)

\* <button onClick=... disabled={isDeleting}>, isDeleting={deletingId === customer.id}
DeleteEnabled(id) == deletingId # Num(id)

\* useEffect(() => { fetchCustomers() }, []) up to await fetch('/api/customers')
Mount ==
    /\ ~mounted
    /\ mounted' = TRUE
    /\ calls' = Append(calls, Call("fetch", "GET", NoBody))
    /\ UNCHANGED <<customers, isLoading, error, isAdding, deletingId, formError, ui>>
    /\ UNCHANGED <<dbUrl, module, dbEvents, tableExists, table, seq, last, created, removed>>

\* handleSubmit, and addCustomer up to await fetch
Submit ==
    \E name \in FormNames : \E phone \in FormPhones :
        /\ SubmitEnabled
        /\ ui' = [op |-> "submit", arg |-> Str(name)]
        /\ IF Trim(name) = <<>> \/ Trim(phone) = <<>>
           THEN /\ formError' = FieldsRequired
                /\ UNCHANGED <<isAdding, calls>>
           ELSE /\ isAdding' = TRUE
                /\ calls' = Append(calls, Call("add", "POST", Json(Str(name), Str(phone), Undefined)))
                /\ UNCHANGED formError
        /\ UNCHANGED <<customers, isLoading, error, deletingId, mounted>>
        /\ UNCHANGED <<dbUrl, module, dbEvents, tableExists, table, seq, last, created, removed>>

\* onClick={() => onDelete(customer.id)}, and deleteCustomer up to await fetch
Click ==
    \E id \in ListIds :
        /\ ListRendered
        /\ DeleteEnabled(id)
        /\ ui' = [op |-> "deleteCustomer", arg |-> Num(id)]
        /\ IF DeleteGuardPasses(id)
           THEN /\ deletingId' = Num(id)
                /\ calls' = Append(calls, Call("del", "DELETE", Json(Undefined, Undefined, Num(id))))
           ELSE UNCHANGED <<deletingId, calls>>
        /\ UNCHANGED <<customers, isLoading, error, isAdding, formError, mounted>>
        /\ UNCHANGED <<dbUrl, module, dbEvents, tableExists, table, seq, last, created, removed>>

\* The function answers a request of the page.
Serve ==
    \E i \in 1..Len(calls) : \E fail \in Failures :
        /\ calls[i].st = "req"
        /\ Apply(calls[i].method, calls[i].body, fail)
        /\ LET res == Invoke(calls[i].method, calls[i].body, fail)
           IN calls' = [calls EXCEPT ![i].st = "resp", ![i].status = res.status,
                                     ![i].out = res.out]
        /\ UNCHANGED <<customers, isLoading, error, isAdding, deletingId, formError, mounted, ui>>

\* fetchCustomers after await fetch
FetchDone(c) ==
    /\ IF Ok(c.status)
       THEN /\ customers' = c.out
            /\ UNCHANGED error
       ELSE /\ error' = IF "error" \in DOMAIN c.out /\ c.out.error # ""
                        THEN Msg(c.out.error) ELSE Msg(FetchFailed)
            /\ UNCHANGED customers
    /\ isLoading' = FALSE
    /\ UNCHANGED <<isAdding, deletingId, formError>>

AddDoneKeepsFlag(c) ==
    /\ IF Ok(c.status)
       THEN /\ customers' = <<c.out>> \o customers
            /\ formError' = ""
            /\ isAdding' = FALSE
       ELSE UNCHANGED <<customers, formError, isAdding>>
    /\ UNCHANGED <<isLoading, error, deletingId>>

\* addCustomer after await fetch, then the rest of handleSubmit
AddDone(c) ==
    /\ IF Ok(c.status)
       THEN /\ customers' = <<c.out>> \o customers
            /\ formError' = ""
       ELSE UNCHANGED <<customers, formError>>
    /\ isAdding' = FALSE
    /\ UNCHANGED <<isLoading, error, deletingId>>

\* deleteCustomer after await fetch
DeleteDone(c) ==
    /\ IF Ok(c.status)
       THEN customers' = Filter(customers, c.body.id.v)
       ELSE UNCHANGED customers
    /\ deletingId' = Null
    /\ UNCHANGED <<isLoading, error, isAdding, formError>>

Continue(c) ==
    CASE c.kind = "fetch" -> FetchDone(c)
      [] c.kind = "add" -> AddDone(c)
      [] OTHER -> DeleteDone(c)

\* The answer reaches the page.
Deliver ==
    \E i \in 1..Len(calls) :
        /\ calls[i].st = "resp"
        /\ Continue(calls[i])
        /\ calls' = Remove(calls, i)
        /\ UNCHANGED <<mounted, ui>>
        /\ UNCHANGED <<dbUrl, module, dbEvents, tableExists, table, seq, last, created, removed>>

\* fetch rejects: the request never reached the function.
Reject ==
    \E i \in 1..Len(calls) :
        /\ calls[i].st = "req"
        /\ Continue([calls[i] EXCEPT !.status = 0, !.out = ErrorBody(NetworkError)])
        /\ calls' = Remove(calls, i)
        /\ UNCHANGED <<mounted, ui>>
        /\ UNCHANGED <<dbUrl, module, dbEvents, tableExists, table, seq, last, created, removed>>

Init ==
    /\ dbUrl \in BOOLEAN
    /\ module = "unloaded"
    /\ dbEvents = {}
    /\ tableExists = FALSE
    /\ table = {}
    /\ seq = 0
    /\ last = NoRequest
    /\ created = <<>>
    /\ removed = {}
    /\ customers = <<>>
    /\ isLoading = TRUE
    /\ error = Null
    /\ isAdding = FALSE
    /\ deletingId = Null
    /\ formError = ""
    /\ mounted = FALSE
    /\ calls = <<>>
    /\ ui = [op |-> "none", arg |-> Undefined]

\* Another page working on the same relation: its creations and deletions.
OtherBodies(method) ==
    IF method = "POST" THEN {Json(Str(<<"A">>), Str(<<"1">>), Undefined)}
    ELSE {Json(Undefined, Undefined, Num(n)) : n \in 1..MaxSeq}

Other ==
    \E method \in {"POST", "DELETE"} : \E body \in OtherBodies(method) :
        /\ Apply(method, body, "none")
        /\ UNCHANGED client

NextServer == LoadModule \/ Request

SpecServer == Init /\ [][NextServer]_vars

\* One page alone with the function.
NextSingle == LoadModule \/ Mount \/ Submit \/ Click \/ Serve \/ Deliver \/ Reject

SpecSingle == Init /\ [][NextSingle]_vars

\* The page, the function, and another page on the same relation.
Next == LoadModule \/ Other \/ Mount \/ Submit \/ Click \/ Serve \/ Deliver \/ Reject

Spec == Init /\ [][Next]_vars

-----------------------------------------------------------------------------
(* Properties *)

\* The request of `last` passed the configuration check and the
\* CREATE TABLE IF NOT EXISTS statement, and reached the switch on the method.
Dispatched == last.method # "none" /\ dbUrl /\ module = "loaded" /\ last.fail # "ensure"

\* The request of `last` met no storage failure at all.
StorageUp == Dispatched /\ last.fail = "none"

Surviving == {created[i] : i \in {j \in 1..Len(created) : created[j].id \notin removed}}

StrictlyDescending(s) == \A i \in 1..(Len(s) - 1) : s[i].id > s[i + 1].id

Range(s) == {s[i] : i \in 1..Len(s)}

\* C1: with DATABASE_URL unset every request, whatever its method, is answered
\* 500 with the configuration-missing error and no storage access of any kind,
\* the construction of the storage client at module load included, has
\* happened by then.
C1_ConfigMissingBeforeStorage ==
    (~dbUrl /\ last.method # "none") =>
        /\ last.status = 500
        /\ last.out = ErrorBody(ConfigMissing)
        /\ dbEvents = {}

\* The part of C1 the handler itself keeps: once the module is loaded and the
\* variable is unset, the handler answers 500 with the configuration-missing
\* error and runs no statement against the storage.
HandlerChecksConfigFirst ==
    (~dbUrl /\ module = "loaded" /\ last.method # "none") =>
        /\ last.status = 500
        /\ last.out = ErrorBody(ConfigMissing)
        /\ dbEvents \subseteq {"construct"}
        /\ table = {}

\* C2: a GET that the storage answers is answered 200 with exactly the records
\* created by the 201 answers and not deleted by a 200 answer to DELETE, each
\* once, ordered by id strictly descending; the empty array when none survive.
C2_ListIsSurvivorsDescending ==
    /\ (last.method = "GET" /\ StorageUp) => last.status = 200
    /\ (last.method = "GET" /\ last.status = 200) =>
          /\ Range(last.out) = Surviving
          /\ Len(last.out) = Cardinality(Surviving)
          /\ StrictlyDescending(last.out)
          /\ (Surviving = {} => last.out = <<>>)

C2_Witness ==
    /\ last.method = "GET"
    /\ last.status = 200
    /\ Len(created) = 2
    /\ removed # {}
    /\ Len(last.out) = 1

\* C3: a POST with non-empty name and phone that meets no configuration or
\* storage failure is answered 201 with a record that has exactly the submitted
\* name and phone and an id no earlier 201 answer carried, deleted rows included.
C3_FreshIdAndSubmittedValues ==
    /\ (last.method = "POST" /\ StorageUp /\ last.body.kind = "json"
          /\ Truthy(last.body.name) /\ Truthy(last.body.phone)) => last.status = 201
    /\ (last.method = "POST" /\ last.status = 201) =>
          /\ last.out = created[Len(created)]
          /\ last.out.name = last.body.name.v
          /\ last.out.phone = last.body.phone.v
          /\ last.out \in table
    /\ \A i, j \in 1..Len(created) : created[i].id = created[j].id => i = j

C3_Witness ==
    /\ last.method = "POST"
    /\ last.status = 201
    /\ Len(created) = 2
    /\ created[1].id \in removed
    /\ created[1].name # created[2].name

\* C4: a DELETE whose id matches no row of the relation is answered 404 and
\* leaves the relation as it was; one whose id matches a row is answered 200
\* with {message, id} and removes that row and no other.
C4_DeleteUnknownIs404 ==
    /\ (last.method = "DELETE" /\ StorageUp /\ last.body.kind = "json"
          /\ last.body.id.t = "number" /\ last.body.id.v \notin Ids(last.before)) =>
          (last.status = 404 /\ last.out = ErrorBody(NotFound) /\ last.after = last.before)
    /\ (last.method = "DELETE" /\ StorageUp /\ last.body.kind = "json"
          /\ last.body.id.t = "number" /\ last.body.id.v \in Ids(last.before)) =>
          /\ last.status = 200
          /\ last.out = [message |-> Removed, id |-> last.body.id.v]
          /\ last.after = {r \in last.before : r.id # last.body.id.v}

\* What the handler does keep of C4: the same, for the ids JavaScript takes as
\* present (every number but 0); a DELETE of id 0 is answered 400.
DeleteOfNonZeroId ==
    /\ (last.method = "DELETE" /\ StorageUp /\ last.body.kind = "json"
          /\ last.body.id.t = "number" /\ last.body.id.v # 0
          /\ last.body.id.v \notin Ids(last.before)) =>
          (last.status = 404 /\ last.out = ErrorBody(NotFound) /\ last.after = last.before)
    /\ (last.method = "DELETE" /\ StorageUp /\ last.body.kind = "json"
          /\ last.body.id.t = "number" /\ last.body.id.v \in Ids(last.before)) =>
          /\ last.status = 200
          /\ last.out = [message |-> Removed, id |-> last.body.id.v]
          /\ last.after = {r \in last.before : r.id # last.body.id.v}
    /\ (last.method = "DELETE" /\ Dispatched /\ last.body = Json(Undefined, Undefined, Num(0))) =>
          (last.status = 400 /\ last.out = ErrorBody(IdRequired))

\* C5: every row of the relation has a non-empty name and a non-empty phone; a
\* POST that reaches the switch with no body, or with name or phone missing or
\* empty, is answered 400 and leaves the relation as it was.
C5_NoEmptyNameOrPhone ==
    /\ \A r \in table : r.name # <<>> /\ r.phone # <<>>
    /\ (last.method = "POST" /\ Dispatched /\ last.body.kind # "bad"
          /\ (last.body.kind = "none"
                \/ last.body.name \in {Undefined, Str(<<>>)}
                \/ last.body.phone \in {Undefined, Str(<<>>)})) =>
          (last.status = 400 /\ last.after = last.before /\ table = last.before)

C5_Witness ==
    /\ last.method = "POST"
    /\ last.body = Json(Str(<<>>), Str(<<"1">>), Undefined)
    /\ last.status = 400
    /\ last.out = ErrorBody(FieldsRequired)
    /\ table # {}

\* A click on the delete control of a row was handled while a deletion was in flight.
IgnoredClick == Truthy(deletingId) /\ ui' # ui /\ ui'.op = "deleteCustomer"

\* C6: at most one DELETE request of the page is in flight at any time, and a
\* call of deleteCustomer made while deletingId is set sends no request and
\* changes no state of the controller.
C6_OneDeletionInFlight ==
    /\ [](Cardinality(InFlight("del")) <= 1)
    /\ [][IgnoredClick => UNCHANGED <<calls, customers, isLoading, error, isAdding,
                                      deletingId, table, seq, last>>]_vars

C6_Witness ==
    /\ Truthy(deletingId)
    /\ ui.op = "deleteCustomer"
    /\ ui.arg # deletingId
    /\ Cardinality(InFlight("del")) = 1

\* C7: at most one POST request of the form is in flight at any time: while
\* isAdding is true no step starts another addCustomer call.
C7_OneCreationInFlight ==
    /\ [](Cardinality(InFlight("add")) <= 1)
    /\ [][isAdding => Cardinality(CallsOf(calls', "add")) <= Cardinality(InFlight("add"))]_vars

C7_Witness ==
    /\ isAdding
    /\ Cardinality(InFlight("add")) = 1
    /\ \E i \in InFlight("add") : calls[i].st = "resp"
    /\ Len(customers) > 0

\* C8: whenever a deleteCustomer(id) of the page is answered 404, the list of
\* the page does not hold that id.
C8_ListExcludesIdOn404 ==
    \A i \in InFlight("del") :
        (calls[i].st = "resp" /\ calls[i].status = 404) => calls[i].body.id.v \notin ListIds

\* What the page does on a 404: the id is still in its list when the answer
\* is in, since only the 2xx branch of deleteCustomer filters the list.
ListHoldsIdOn404 ==
    \A i \in InFlight("del") :
        (calls[i].st = "resp" /\ calls[i].status = 404) => calls[i].body.id.v \in ListIds

\* C9: isAdding is true exactly while a create call is outstanding and
\* deletingId is set exactly while a delete call is outstanding; a flag is
\* cleared only by the step in which its call ends (answer or rejection), so
\* it stays set for as long as no answer arrives.
C9_FlagsTrackCalls ==
    /\ []((isAdding <=> InFlight("add") # {}) /\ (deletingId # Null <=> InFlight("del") # {}))
    /\ [][/\ (isAdding /\ ~isAdding') => \E i \in InFlight("add") : calls' = Remove(calls, i)
          /\ (deletingId # Null /\ deletingId' = Null) =>
                \E i \in InFlight("del") : calls' = Remove(calls, i)]_vars

C9_Witness ==
    /\ ~isAdding
    /\ deletingId = Null
    /\ calls = <<>>
    /\ ui.op = "deleteCustomer"
    /\ last.method = "DELETE"
    /\ last.status = 500

\* C10: with the first fetch answered well and no request of the page in
\* flight, the list of the page is the relation ordered by id descending.
C10_ListMirrorsRelation ==
    (mounted /\ calls = <<>> /\ ListRendered) => customers = OrderDescId(table)

====
